---- MODULE Spec2Model ----
(***************************************************************************)
(* Model of the Flask to-do list application (src/app.py).                 *)
(*                                                                         *)
(* The persisted state is the SQLite table `tasks` together with the       *)
(* AUTOINCREMENT counter SQLite keeps for it in sqlite_sequence.  Every    *)
(* request opens its own connection (get_db_connection); Python's sqlite3  *)
(* module runs a SELECT outside a transaction in autocommit mode and opens *)
(* a transaction implicitly before INSERT / UPDATE / DELETE, which takes   *)
(* the database's single write lock until conn.commit().  A request that   *)
(* needs the write lock while another holds it waits in SQLite's busy      *)
(* handler; a wait that outlasts the handler's timeout (5 s by default),   *)
(* like any other failure of the store, is outside the model.  Other       *)
(* connections read the committed table meanwhile.                         *)
(*                                                                         *)
(* Requests are handled by concurrent threads, so the statements of        *)
(* different requests interleave; SpecSeq is the same program serving one  *)
(* request at a time.                                                      *)
(***************************************************************************)
EXTENDS Integers, Sequences, FiniteSets, TLC

\* ---- bounds ----
NumReq == 3          \* number of requests served
MaxId == 2           \* largest task id a client puts in a path
MaxClock == 1        \* seconds the clock advances during the run

Req == 1..NumReq

\* ---- request bodies ----
Space == " "
Missing == <<"<missing>">>
\* the bodies clients send: no description member, an empty one, blanks only,
\* text with blanks around it, text with a blank inside
Descriptions ==
    {Missing, <<>>, <<Space, Space>>, <<Space, "a", Space>>, <<"a", Space, "a">>}

VARIABLES
    tasks,         \* committed rows of table tasks
    seq,           \* committed sqlite_sequence.seq of table tasks
    writer,        \* request holding the write lock, 0 when free
    wtasks,        \* rows as seen inside the open write transaction
    wseq,          \* sqlite_sequence.seq inside the open write transaction
    now,           \* CURRENT_TIMESTAMP, in seconds, when an INSERT last read it
    pc,            \* position of each request in its handler
    route,         \* handler serving each request
    data,          \* add_task: the description member of the JSON body
    task_id,       \* path parameter task_id; add_task: cursor.lastrowid
    description,   \* add_task: local description
    task,          \* complete_task / delete_task: local task; add_task: new_task
    updated_task,  \* complete_task: local updated_task
    resp           \* response of each request

vars == <<tasks, seq, writer, wtasks, wseq, now, pc, route, data, task_id,
          description, task, updated_task, resp>>

store == <<tasks, seq, writer, wtasks, wseq>>
locals == <<data, task_id, description, task, updated_task>>

\* ---- pure helpers ----
RECURSIVE lstrip(_)
lstrip(s) ==
    IF s = <<>> THEN <<>>
    ELSE IF Head(s) = Space THEN lstrip(Tail(s)) ELSE s

RECURSIVE rstrip(_)
rstrip(s) ==
    IF s = <<>> THEN <<>>
    ELSE IF s[Len(s)] = Space THEN rstrip(SubSeq(s, 1, Len(s) - 1)) ELSE s

\* a trim that forgets the right end
strip_left_only(s) == lstrip(s)

\* no trim at all
strip_nothing(s) == s

\* str.strip()
strip(s) == rstrip(lstrip(s))

\* data.get('description', '')
get_description(d) == IF d = Missing THEN <<>> ELSE d

\* bool(row['completed'])
bool(x) == x # 0

\* sqlite3 adapts a Python bool bound to a parameter to the integers 0 / 1
adapt(b) == IF b THEN 1 ELSE 0

Max(S) == CHOOSE x \in S : \A y \in S : y <= x

Ids(T) == {t.id : t \in T}

\* the rows a connection reads: its own open transaction, else committed rows
View(r) == IF writer = r THEN wtasks ELSE tasks

\* 'SELECT * FROM tasks WHERE id = ?' ... fetchone(): the set is empty for None
fetchone(T, id) == {t \in T : t.id = id}

\* INTEGER PRIMARY KEY without AUTOINCREMENT: one more than the largest rowid
\* now in the table
next_rowid_no_autoincrement(T, s) == Max(Ids(T) \cup {0}) + 1

\* an id counted from the number of rows
next_rowid_row_count(T, s) == Cardinality(T) + 1

\* INTEGER PRIMARY KEY AUTOINCREMENT: one more than the largest rowid ever used
next_rowid(T, s) == Max(Ids(T) \cup {s}) + 1

\* the dictionary the handlers build from a row
task_data(t) ==
    [id |-> t.id, description |-> t.description,
     completed |-> bool(t.completed), created_at |-> t.created_at]

\* 'ORDER BY created_at' without DESC
order_by_created_at_asc(T) ==
    {s \in [1..Cardinality(T) -> T] :
        /\ \A i, j \in 1..Cardinality(T) : i # j => s[i] # s[j]
        /\ \A i, j \in 1..Cardinality(T) :
              i < j => s[i].created_at <= s[j].created_at}

\* 'SELECT * FROM tasks ORDER BY created_at DESC': every order of the rows
\* that is descending in created_at; rows with equal created_at come in an
\* order SQL does not fix
order_by_created_at_desc(T) ==
    {s \in [1..Cardinality(T) -> T] :
        /\ \A i, j \in 1..Cardinality(T) : i # j => s[i] # s[j]
        /\ \A i, j \in 1..Cardinality(T) :
              i < j => s[i].created_at >= s[j].created_at}

tasks_list(s) == [i \in 1..Len(s) |-> task_data(s[i])]

Response(status, json) == [status |-> status, json |-> json]

Error(msg) == <<[error |-> msg]>>

\* ---- initial state: init_db on a fresh database file ----
Init ==
    /\ tasks = {}
    /\ seq = 0
    /\ writer = 0
    /\ wtasks = {}
    /\ wseq = 0
    /\ now = 0
    /\ pc = [r \in Req |-> "idle"]
    /\ route = [r \in Req |-> "none"]
    /\ data = [r \in Req |-> Missing]
    /\ task_id = [r \in Req |-> 0]
    /\ description = [r \in Req |-> <<>>]
    /\ task = [r \in Req |-> {}]
    /\ updated_task = [r \in Req |-> {}]
    /\ resp = [r \in Req |-> Response(0, <<>>)]

\* request r arrives: requests are numbered in their order of arrival
Arrives(r) == pc[r] = "idle" /\ (IF r = 1 THEN TRUE ELSE pc[r - 1] # "idle")

\* ---- GET /api/tasks ----
get_tasks(r) ==
    /\ Arrives(r)
    /\ \E s \in order_by_created_at_desc(View(r)) :
          resp' = [resp EXCEPT ![r] = Response(200, tasks_list(s))]
    /\ route' = [route EXCEPT ![r] = "list"]
    /\ pc' = [pc EXCEPT ![r] = "done"]
    /\ UNCHANGED <<store, now, locals>>

\* ---- POST /add ----
\* lines 69-73: read the body, trim, reject an empty description
add_task_validate(r) ==
    /\ Arrives(r)
    /\ \E d \in Descriptions :
          /\ data' = [data EXCEPT ![r] = d]
          /\ description' = [description EXCEPT ![r] = strip(get_description(d))]
    /\ route' = [route EXCEPT ![r] = "add"]
    /\ IF description'[r] = <<>>
       THEN /\ resp' = [resp EXCEPT ![r] =
                           Response(400, Error("Task description cannot be empty"))]
            /\ pc' = [pc EXCEPT ![r] = "done"]
       ELSE /\ pc' = [pc EXCEPT ![r] = "add_insert"]
            /\ UNCHANGED resp
    /\ UNCHANGED <<store, now, task_id, task, updated_task>>

\* 'INSERT INTO tasks (description, completed) VALUES (?, ?)' on the rows T:
\* id and created_at take their column defaults
insert_into(T, id, d, c, t) ==
    T \cup {[id |-> id, description |-> d, completed |-> adapt(c), created_at |-> t]}

\* lines 75-85: INSERT opens the write transaction; lastrowid.  The clock
\* has not gone back since the last INSERT read it
add_task_insert(r) ==
    /\ pc[r] = "add_insert"
    /\ writer = 0
    /\ \E t \in now..MaxClock : now' = t
    /\ LET id == next_rowid(tasks, seq)
       IN /\ wtasks' = insert_into(tasks, id, description[r], FALSE, now')
          /\ wseq' = id
          /\ task_id' = [task_id EXCEPT ![r] = id]
    /\ writer' = r
    /\ pc' = [pc EXCEPT ![r] = "add_select"]
    /\ UNCHANGED <<tasks, seq, route, data, description, task, updated_task, resp>>

\* lines 86-88: read the new row back inside the transaction
add_task_select(r) ==
    /\ pc[r] = "add_select"
    /\ task' = [task EXCEPT ![r] = fetchone(View(r), task_id[r])]
    /\ pc' = [pc EXCEPT ![r] = "add_commit"]
    /\ UNCHANGED <<store, now, route, data, task_id, description, updated_task, resp>>

\* lines 90-101: commit, close, answer 201 with the new task
add_task_commit(r) ==
    /\ pc[r] = "add_commit"
    /\ writer = r
    /\ tasks' = wtasks
    /\ seq' = wseq
    /\ writer' = 0
    /\ resp' = [resp EXCEPT ![r] =
                   IF task[r] = {}
                   THEN Response(500, Error("TypeError"))
                   ELSE Response(201, <<task_data(CHOOSE t \in task[r] : TRUE)>>)]
    /\ pc' = [pc EXCEPT ![r] = "done"]
    /\ UNCHANGED <<wtasks, wseq, now, route, locals>>

\* ---- PUT /complete/<task_id> ----
\* lines 106-116: look the task up, answer 404 when there is none
complete_task_select(r) ==
    /\ Arrives(r)
    /\ \E id \in 1..MaxId : task_id' = [task_id EXCEPT ![r] = id]
    /\ route' = [route EXCEPT ![r] = "complete"]
    /\ task' = [task EXCEPT ![r] = fetchone(View(r), task_id'[r])]
    /\ IF task'[r] = {}
       THEN /\ resp' = [resp EXCEPT ![r] = Response(404, Error("Task not found"))]
            /\ pc' = [pc EXCEPT ![r] = "done"]
       ELSE /\ pc' = [pc EXCEPT ![r] = "complete_update"]
            /\ UNCHANGED resp
    /\ UNCHANGED <<store, now, data, description, updated_task>>

\* an UPDATE that marks the task completed whatever its status was
update_completed_always_true(T, new_status, id) ==
    {IF t.id = id THEN [t EXCEPT !.completed = 1] ELSE t : t \in T}

\* an UPDATE without its WHERE clause
update_completed_no_where(T, new_status, id) ==
    {[t EXCEPT !.completed = adapt(new_status)] : t \in T}

\* 'UPDATE tasks SET completed = ? WHERE id = ?' on the rows T
update_completed(T, new_status, id) ==
    {IF t.id = id THEN [t EXCEPT !.completed = adapt(new_status)] ELSE t : t \in T}

\* a toggle done by the store in one statement, SET completed = NOT completed
complete_task_update_atomic(r) ==
    /\ pc[r] = "complete_update"
    /\ writer = 0
    /\ wtasks' = {IF t.id = task_id[r]
                     THEN [t EXCEPT !.completed = adapt(~bool(t.completed))]
                     ELSE t : t \in tasks}
    /\ wseq' = seq
    /\ writer' = r
    /\ pc' = [pc EXCEPT ![r] = "complete_reselect"]
    /\ UNCHANGED <<tasks, seq, now, route, locals, resp>>

\* lines 118-123: negate the status read before, UPDATE opens the transaction
complete_task_update(r) ==
    /\ pc[r] = "complete_update"
    /\ writer = 0
    /\ LET new_status == ~bool((CHOOSE t \in task[r] : TRUE).completed)
       IN wtasks' = update_completed(tasks, new_status, task_id[r])
    /\ wseq' = seq
    /\ writer' = r
    /\ pc' = [pc EXCEPT ![r] = "complete_reselect"]
    /\ UNCHANGED <<tasks, seq, now, route, locals, resp>>

\* lines 125-128: read the row again inside the transaction
complete_task_reselect(r) ==
    /\ pc[r] = "complete_reselect"
    /\ updated_task' = [updated_task EXCEPT ![r] = fetchone(View(r), task_id[r])]
    /\ pc' = [pc EXCEPT ![r] = "complete_commit"]
    /\ UNCHANGED <<store, now, route, data, task_id, description, task, resp>>

\* lines 130-140: commit, close, answer with the updated task; subscripting
\* updated_task raises TypeError when the second SELECT found no row
complete_task_commit(r) ==
    /\ pc[r] = "complete_commit"
    /\ writer = r
    /\ tasks' = wtasks
    /\ seq' = wseq
    /\ writer' = 0
    /\ resp' = [resp EXCEPT ![r] =
                   IF updated_task[r] = {}
                   THEN Response(500, Error("TypeError"))
                   ELSE Response(200, <<task_data(CHOOSE t \in updated_task[r] : TRUE)>>)]
    /\ pc' = [pc EXCEPT ![r] = "done"]
    /\ UNCHANGED <<wtasks, wseq, now, route, locals>>

\* ---- DELETE /delete/<task_id> ----
\* a delete that does not look the task up first
delete_task_select_unchecked(r) ==
    /\ Arrives(r)
    /\ \E id \in 1..MaxId : task_id' = [task_id EXCEPT ![r] = id]
    /\ route' = [route EXCEPT ![r] = "delete"]
    /\ task' = [task EXCEPT ![r] = fetchone(View(r), task_id'[r])]
    /\ pc' = [pc EXCEPT ![r] = "delete_delete"]
    /\ UNCHANGED <<store, now, data, description, updated_task, resp>>

\* lines 145-155: look the task up, answer 404 when there is none
delete_task_select(r) ==
    /\ Arrives(r)
    /\ \E id \in 1..MaxId : task_id' = [task_id EXCEPT ![r] = id]
    /\ route' = [route EXCEPT ![r] = "delete"]
    /\ task' = [task EXCEPT ![r] = fetchone(View(r), task_id'[r])]
    /\ IF task'[r] = {}
       THEN /\ resp' = [resp EXCEPT ![r] = Response(404, Error("Task not found"))]
            /\ pc' = [pc EXCEPT ![r] = "done"]
       ELSE /\ pc' = [pc EXCEPT ![r] = "delete_delete"]
            /\ UNCHANGED resp
    /\ UNCHANGED <<store, now, data, description, updated_task>>

\* 'DELETE FROM tasks WHERE id = ?' on the rows T
delete_from(T, id) == {t \in T : t.id # id}

\* lines 157-158: DELETE opens the write transaction
delete_task_delete(r) ==
    /\ pc[r] = "delete_delete"
    /\ writer = 0
    /\ wtasks' = delete_from(tasks, task_id[r])
    /\ wseq' = seq
    /\ writer' = r
    /\ pc' = [pc EXCEPT ![r] = "delete_commit"]
    /\ UNCHANGED <<tasks, seq, now, route, locals, resp>>

\* lines 159-162: commit, close, confirm
delete_task_commit(r) ==
    /\ pc[r] = "delete_commit"
    /\ writer = r
    /\ tasks' = wtasks
    /\ seq' = wseq
    /\ writer' = 0
    /\ resp' = [resp EXCEPT ![r] =
                   Response(200, <<[message |-> "Task deleted successfully"]>>)]
    /\ pc' = [pc EXCEPT ![r] = "done"]
    /\ UNCHANGED <<wtasks, wseq, now, route, locals>>

\* ---- the server ----
Step(r) ==
    \/ get_tasks(r)
    \/ add_task_validate(r)
    \/ add_task_insert(r)
    \/ add_task_select(r)
    \/ add_task_commit(r)
    \/ complete_task_select(r)
    \/ complete_task_update(r)
    \/ complete_task_reselect(r)
    \/ complete_task_commit(r)
    \/ delete_task_select(r)
    \/ delete_task_delete(r)
    \/ delete_task_commit(r)

Next == \E r \in Req : Step(r)

Spec == Init /\ [][Next]_vars

\* one request at a time: a request is taken up only when no other is in progress
Quiet == \A r \in Req : pc[r] \in {"idle", "done"}

NextSeq ==
    \E r \in Req :
        \/ Quiet /\ get_tasks(r)
        \/ Quiet /\ add_task_validate(r)
        \/ add_task_insert(r)
        \/ add_task_select(r)
        \/ add_task_commit(r)
        \/ Quiet /\ complete_task_select(r)
        \/ complete_task_update(r)
        \/ complete_task_reselect(r)
        \/ complete_task_commit(r)
        \/ Quiet /\ delete_task_select(r)
        \/ delete_task_delete(r)
        \/ delete_task_commit(r)

SpecSeq == Init /\ [][NextSeq]_vars

TypeOK ==
    /\ writer \in 0..NumReq
    /\ seq \in 0..NumReq
    /\ now \in 0..MaxClock
    /\ \A t \in tasks : t.id \in 1..NumReq /\ t.completed \in {0, 1}

\* ---- vocabulary of the properties ----
Range(f) == {f[i] : i \in DOMAIN f}

Row(T, id) == CHOOSE t \in T : t.id = id

\* request r answers in this step
Answers(r) == pc[r] # "done" /\ pc'[r] = "done"

\* request r has answered with this status on this route
Answered(r, rt, status) ==
    pc[r] = "done" /\ route[r] = rt /\ resp[r].status = status

\* the body has no description, or one made of blanks only
Blank(d) == d = Missing \/ \A i \in 1..Len(d) : d[i] = Space

\* t is s without the blanks at its two ends
IsTrimOf(t, s) ==
    \E i, j \in 0..Len(s) :
        /\ i + Len(t) + j = Len(s)
        /\ t = SubSeq(s, i + 1, i + Len(t))
        /\ \A k \in 1..i : s[k] = Space
        /\ \A k \in (Len(s) - j + 1)..Len(s) : s[k] = Space
        /\ t # <<>> => (t[1] # Space /\ t[Len(t)] # Space)

\* what GET /api/tasks may answer on the rows T
Listings(T) == {tasks_list(s) : s \in order_by_created_at_desc(T)}

\* C1: an add whose description is not blank answers 201 with the new task;
\* the table after it is the table before it plus one row, whose completed is
\* false, whose description is the trimmed one and whose id no earlier row
\* has; every list taken after it holds that one task more than a list
\* taken before it, and all the tasks listed before
C1_AddThenList ==
    [][\A r \in Req :
        (Answers(r) /\ route'[r] = "add" /\ ~Blank(data'[r])) =>
            \E n \in tasks' :
                /\ resp'[r] = Response(201, <<task_data(n)>>)
                /\ n \notin tasks
                /\ tasks' = tasks \cup {n}
                /\ n.id \notin Ids(tasks)
                /\ n.completed = 0
                /\ task_data(n).completed = FALSE
                /\ IsTrimOf(n.description, data'[r])
                /\ n.description # <<>>
                /\ \A before \in Listings(tasks), after \in Listings(tasks') :
                      /\ Range(before) \subseteq Range(after)
                      /\ Range(after) \ Range(before) = {task_data(n)}
                      /\ Len(after) = Len(before) + 1]_vars

\* an add of a description with blanks around it has answered 201 and there
\* are tasks in the table besides the new one
C1_Witness ==
    \E r \in Req :
        /\ Answered(r, "add", 201)
        /\ data[r] = <<Space, "a", Space>>
        /\ resp[r].json[1].description = <<"a">>
        /\ Cardinality(tasks) >= 2
        /\ \E t \in tasks : t.id = task_id[r]

\* C2: an add whose description is missing, empty or blanks only answers 400
\* 'Task description cannot be empty' and leaves the store as it was
C2_AddBlankRejected ==
    [][\A r \in Req :
        (Arrives(r) /\ route'[r] = "add" /\ Blank(data'[r])) =>
            /\ resp'[r] = Response(400, Error("Task description cannot be empty"))
            /\ pc'[r] = "done"
            /\ UNCHANGED store]_vars

\* a blanks-only add has been rejected while the table holds a task
C2_Witness ==
    /\ \E r \in Req : Answered(r, "add", 400) /\ data[r] = <<Space, Space>>
    /\ tasks # {}

\* C3: a toggle or delete of an id with no row answers 404 'Task not found'
\* and leaves the store as it was
C3_UnknownIdNotFound ==
    [][\A r \in Req :
        (Arrives(r) /\ route'[r] \in {"complete", "delete"}
            /\ task_id'[r] \notin Ids(tasks)) =>
            /\ resp'[r] = Response(404, Error("Task not found"))
            /\ pc'[r] = "done"
            /\ UNCHANGED store]_vars

\* a toggle and a delete have both answered 404 and the table holds a task
C3_Witness ==
    /\ \E r \in Req : Answered(r, "complete", 404)
    /\ \E r \in Req : Answered(r, "delete", 404)
    /\ tasks # {}

\* request r is a toggle that commits and answers 200 in this step
ToggleCommits(r) ==
    pc[r] = "complete_commit" /\ pc'[r] = "done" /\ resp'[r].status = 200

\* the value of completed request r read in its first SELECT
ReadCompleted(r) == bool(Row(task[r], task_id[r]).completed)

\* C4: with one request served at a time, a toggle negates the stored
\* completed of its task and answers with the negated value; a second toggle
\* of the same task right after it brings completed back to the value the
\* first one found
C4_ToggleFlips ==
    [][\A r \in Req :
        ToggleCommits(r) =>
            LET id == task_id[r]
                old == Row(tasks, id)
                new == Row(tasks', id)
            IN /\ id \in Ids(tasks) /\ id \in Ids(tasks')
               /\ bool(new.completed) = ~bool(old.completed)
               /\ resp'[r].json = <<task_data(new)>>
               /\ resp'[r].json[1].completed = ~bool(old.completed)
               /\ IF r = 1 THEN TRUE
                  ELSE (Answered(r - 1, "complete", 200) /\ task_id[r - 1] = id) =>
                          /\ bool(new.completed) = ReadCompleted(r - 1)
                          /\ resp'[r].json[1].completed = ~resp[r - 1].json[1].completed]_vars

\* two toggles of one task, served one after the other, have answered 200:
\* the first with completed true, the second with completed false again
C4_Witness ==
    \E r \in Req \ {1} :
        /\ Answered(r - 1, "complete", 200) /\ Answered(r, "complete", 200)
        /\ task_id[r - 1] = task_id[r]
        /\ resp[r - 1].json[1].completed = TRUE
        /\ resp[r].json[1].completed = FALSE
        /\ \E t \in tasks : t.id = task_id[r] /\ t.completed = 0

\* request d is a delete that has answered 200
Deleted(d) == Answered(d, "delete", 200)

\* request l is a list taken in this step
Lists(l) == Arrives(l) /\ route'[l] = "list"

\* C5: once a delete of an existing task has answered 200, no row has its id,
\* whatever adds, toggles and deletes follow, and no list taken later
\* returns it
C5_DeletedIdNeverListed ==
    [][\A d \in Req :
        Deleted(d)' =>
            /\ task_id'[d] \notin Ids(tasks')
            /\ \A l \in Req :
                  Lists(l) => \A i \in 1..Len(resp'[l].json) :
                                 resp'[l].json[i].id # task_id'[d]]_vars

\* a task was deleted and a later add has put a new row in the table
C5_Witness ==
    \E d, a \in Req :
        /\ Deleted(d)
        /\ Answered(a, "add", 201)
        /\ task_id[a] > task_id[d]
        /\ task_id[a] \in Ids(tasks)

\* the adds that have answered 201
Added == {r \in Req : Answered(r, "add", 201)}

\* no delete has removed a row
NoDeletes == \A r \in Req : ~Deleted(r)

\* C6 as stated: from an empty store, after N adds and no delete, a list
\* returns N tasks and of any two the one created later comes first
C6_ListLaterCreatedFirst ==
    [][\A l \in Req :
        (Lists(l) /\ NoDeletes) =>
            LET json == resp'[l].json
            IN /\ resp'[l].status = 200
               /\ Len(json) = Cardinality(Added)
               /\ \A i, j \in 1..Len(json) : i < j => json[i].id > json[j].id]_vars

\* C6: from an empty store, after N adds and no delete, a list returns
\* exactly the N tasks added, in descending order of created_at: a task with
\* a later created_at comes before a task with an earlier one
C6_ListByCreatedAtDesc ==
    [][\A l \in Req :
        (Lists(l) /\ NoDeletes) =>
            LET json == resp'[l].json
            IN /\ resp'[l].status = 200
               /\ Len(json) = Cardinality(Added)
               /\ {json[i].id : i \in 1..Len(json)} = {task_id[a] : a \in Added}
               /\ \A i, j \in 1..Len(json) :
                     /\ i # j => json[i].id # json[j].id
                     /\ json[i].created_at > json[j].created_at => i < j]_vars

\* a list has returned two tasks created in different seconds, the later first
C6_Witness ==
    \E l \in Req :
        /\ Answered(l, "list", 200)
        /\ NoDeletes
        /\ Len(resp[l].json) = 2
        /\ resp[l].json[1].created_at > resp[l].json[2].created_at
        /\ resp[l].json[1].id > resp[l].json[2].id

\* request q is an add whose INSERT has assigned it an id
Assigned(q) == route[q] = "add" /\ task_id[q] # 0

\* request r is an add whose INSERT runs in this step
Inserts(r) == pc[r] = "add_insert" /\ pc'[r] = "add_select"

\* C7: no two stored tasks have the same id, every stored task has a
\* description that is not empty, and the id an add assigns is greater than
\* every id assigned before
C7_IdsUniqueIncreasing ==
    [][/\ \A t, u \in tasks' : t.id = u.id => t = u
       /\ \A t \in tasks' : t.description # <<>>
       /\ \A r \in Req :
             Inserts(r) =>
                /\ \A q \in Req : Assigned(q) => task_id'[r] > task_id[q]
                /\ \A t \in tasks : task_id'[r] > t.id]_vars

\* the first task was deleted and an add after that got a greater id
C7_Witness ==
    \E d, a \in Req :
        /\ d < a
        /\ Deleted(d) /\ task_id[d] = 1
        /\ Answered(a, "add", 201) /\ task_id[a] = 2
        /\ Ids(tasks) = {2}

\* C8: a toggle that answers 200 changes the completed of its task and
\* nothing else in the table; no step changes the id, description or
\* created_at of a stored task
C8_ToggleFrame ==
    [][/\ \A r \in Req :
             ToggleCommits(r) =>
                \E t \in tasks, c \in {0, 1} :
                    /\ t.id = task_id[r]
                    /\ tasks' = (tasks \ {t}) \cup {[t EXCEPT !.completed = c]}
                    /\ seq' = seq
       /\ \A t \in tasks, u \in tasks' :
             t.id = u.id =>
                u.description = t.description /\ u.created_at = t.created_at]_vars

\* a toggle has answered 200 while the table holds a second task, whose
\* completed differs from the toggled one's
C8_Witness ==
    \E r \in Req :
        /\ Answered(r, "complete", 200)
        /\ \E t, u \in tasks :
              t.id = task_id[r] /\ u.id # t.id /\ t.completed = 1 /\ u.completed = 0

\* toggle q has read its task and not yet written
ReadNotWritten(q) == pc[q] = "complete_update"

\* C9: a toggle writes the negation of the value it read, not of the value
\* stored.  When toggle r commits while toggle q of the same task has read
\* the same value and not yet written, the store holds the value q is about
\* to write; and when a toggle commits on a row that already holds the value
\* it writes, it answers 200 with that value and the row stays as it is:
\* flipped once by two toggles
C9_LostUpdate ==
    [][\A r \in Req :
        ToggleCommits(r) =>
            LET id == task_id[r]
            IN /\ \A q \in Req \ {r} :
                    (ReadNotWritten(q) /\ task_id[q] = id
                        /\ ReadCompleted(q) = ReadCompleted(r)) =>
                        /\ resp'[r].json[1].completed = ~ReadCompleted(q)
                        /\ bool(Row(tasks', id).completed) = ~ReadCompleted(q)
               /\ bool(Row(tasks, id).completed) = ~ReadCompleted(r) =>
                    /\ resp'[r].json[1].completed = ~ReadCompleted(r)
                    /\ tasks' = tasks]_vars

\* two toggles of a task whose completed was false both read false, both
\* answered 200 with true, and the row holds true
C9_Witness ==
    \E r, q \in Req :
        /\ r # q
        /\ Answered(r, "complete", 200) /\ Answered(q, "complete", 200)
        /\ task_id[r] = task_id[q]
        /\ ~ReadCompleted(r) /\ ~ReadCompleted(q)
        /\ resp[r].json[1].completed /\ resp[q].json[1].completed
        /\ \E t \in tasks : t.id = task_id[r] /\ t.completed = 1
        /\ Cardinality({a \in Req : route[a] = "complete"}) = 2

\* C10 as stated: a toggle ends with 200 and the updated task or with 404
\* 'Task not found', and once a delete has committed no row has its id
C10_ToggleOutcomes ==
    /\ \A r \in Req :
          (pc[r] = "done" /\ route[r] = "complete") =>
             \/ resp[r] = Response(404, Error("Task not found"))
             \/ /\ resp[r].status = 200
                /\ resp[r].json[1].id = task_id[r]
    /\ \A d \in Req : Deleted(d) => task_id[d] \notin Ids(tasks)

====
